---- MODULE Spec2Model ----
(***************************************************************************)
(* Model of bimcc.py, the BLE interactive Meshtastic chat client.          *)
(*                                                                         *)
(* Spec        : one run of the script, from the module-level code         *)
(*               (lines 183-191) through main() (lines 144-180), with      *)
(*               custom_connect (lines 60-97) inlined where the            *)
(*               BLEInterface constructor calls it.                        *)
(* SpecConnect : custom_connect called on its own with every kind of       *)
(*               address argument (None, empty, non-empty).                *)
(* SpecFind    : custom_find_device applied to every scan result list and  *)
(*               target address within the bounds.                         *)
(*                                                                         *)
(* Strings that the code inspects character by character (addresses) are   *)
(* sequences of one-character strings; input lines are only tested for    *)
(* emptiness and passed on, and are TLA+ strings.                          *)
(***************************************************************************)
EXTENDS Integers, Sequences, FiniteSets

VARIABLES
    pc,            \* position of the script / of main()
    argv,          \* sys.argv: <<program>> or <<program, argument>>
    address,       \* the address handed to BLEInterface(...) / custom_connect
    findDeviceAttr,\* what BLEInterface.find_device is bound to
    connectAttr,   \* what BLEInterface.connect is bound to
    original_connect,\* the module global _original_connect
    subscribed,    \* onReceive subscribed to "meshtastic.receive.text"
    ctorCalls,     \* number of BLEInterface(...) constructions attempted
    overrideCalls, \* number of calls of custom_connect
    originalCalls, \* number of calls of _original_connect
    directClients, \* number of BLEClient(address, ...) objects constructed
    cbRegistered,  \* the lambda of line 92 is registered on the client
    linkOpen,      \* the underlying BLE link is open
    connectOk,     \* client.connect() (or the original routine) has succeeded
    discoverOk,    \* client.discover() (or the original routine) has succeeded
    ble_iface,         \* ble_iface: "unset", "open" or "closed"
    closeCalls,    \* number of calls of ble_iface.close()
    linkDropped,   \* the link dropped unexpectedly
    cbFired,       \* number of times the disconnect callback ran
    linesRead,     \* the lines input() has returned, in order
    msg,           \* the local variable msg of the read loop
    sendCalls,     \* the sendText calls issued, in order
    sendFailures,  \* number of sendText calls that raised
    exc,           \* the exception being raised in main(), "none" if none
    interrupt,     \* how the user interrupt was delivered, "none" if none yet
    interruptAt,   \* where main() was when the user interrupt arrived
    cancelPending, \* a task cancellation waits for the next await
    console,       \* what main() and the handlers printed, in order
    exitStatus,    \* <<>> while the process runs, <<status>> once it exited
    devices,       \* custom_find_device: the result of BLEInterface.scan()
    target,        \* custom_find_device: the address argument
    found,         \* custom_find_device: <<d>> returned, <<>> otherwise
    findRaised,    \* custom_find_device: the exception of line 57 was raised
    packet,        \* onReceive: the packet argument of the call being made
    interface,     \* onReceive: the interface argument of the call being made
    recvRaised,    \* onReceive: the exception the last call raised, or "none"
    eventsDelivered,\* number of inbound events delivered to onReceive
    deliveredAt,   \* where main() was at each delivery, in order
    loopTrace      \* the steps of the read loop so far, in order

progVars == <<pc, argv, address>>
patchVars == <<findDeviceAttr, connectAttr, original_connect, subscribed>>
connVars == <<ctorCalls, overrideCalls, originalCalls, directClients,
              cbRegistered, linkOpen, connectOk, discoverOk>>
sessVars == <<ble_iface, closeCalls, linkDropped, cbFired, linesRead, msg,
              sendCalls, sendFailures, exc, interrupt, interruptAt,
              cancelPending>>
outVars == <<console, exitStatus>>
findVars == <<devices, target, found, findRaised>>
recvVars == <<packet, interface, recvRaised, eventsDelivered, deliveredAt>>
vars == <<progVars, patchVars, connVars, sessVars, outVars, findVars, recvVars,
          loopTrace>>

----------------------------------------------------------------------------
(* Bounds of the model.                                                    *)

\* longest command-line argument / address, in characters
MaxArgLen == 2
\* number of lines the read loop reads before it can only be ended
MaxLines == 2
\* longest scan result list
MaxDevices == 3
\* depth at which a function that keeps calling itself is cut off
RecursionLimit == 3

----------------------------------------------------------------------------
(* Values.                                                                 *)

Chars == {" ", "a", "A", "b"}
Whitespace == {" "}

RECURSIVE StringsUpTo(_)
StringsUpTo(n) ==
    IF n = 0 THEN {<<>>}
    ELSE LET shorter == StringsUpTo(n - 1)
         IN  shorter \cup {Append(s, c) : s \in {t \in shorter : Len(t) = n - 1}, c \in Chars}

\* Python values an address parameter can take: None or a str
PyNone == [none |-> TRUE]
PyStr(s) == [str |-> s]
IsStr(v) == "str" \in DOMAIN v

\* the lines input() can return (without the newline)
Lines == {"", "hi", " "}

Program == <<"b", "i", "m", "c", "c">>
Argvs == {<<Program>>} \cup {<<Program, s>> : s \in StringsUpTo(MaxArgLen)}

----------------------------------------------------------------------------
(* Helpers: what the Python built-ins used by the script compute.          *)

\* str.strip(): drop leading, then trailing, whitespace
RECURSIVE LStrip(_)
LStrip(s) ==
    IF s # <<>> /\ Head(s) \in Whitespace THEN LStrip(Tail(s)) ELSE s

RECURSIVE RStrip(_)
RStrip(s) ==
    IF s # <<>> /\ s[Len(s)] \in Whitespace
    THEN RStrip(SubSeq(s, 1, Len(s) - 1))
    ELSE s

Strip(s) == RStrip(LStrip(s))

\* truth value of an address in "if address:" (line 91)
Truthy(v) == IsStr(v) /\ v.str # <<>>

\* what one print(...) or prompt writes: the literal text, the value
\* formatted into it (a sequence of strings, empty when the text is a plain
\* literal) and the terminator written after it
ConsoleEntryEnd(line, arg, end) == [line |-> line, arg |-> arg, end |-> end]

\* print(...) without end=: the text is followed by a newline
ConsoleEntry(line, arg) == ConsoleEntryEnd(line, arg, "\n")
NoArg == <<>>
Emit(out, line, arg) == Append(out, ConsoleEntry(line, arg))

\* print(..., end=end) and the prompt of input(...)
EmitEnd(out, line, arg, end) == Append(out, ConsoleEntryEnd(line, arg, end))

PromptText == "Ch0> "

Running == exitStatus = <<>>
ExitedWith(status) == exitStatus = <<status>>

----------------------------------------------------------------------------
(* Module-level code, lines 183-191.                                       *)

\* line 184: BLEInterface.find_device = custom_find_device
InstallFindDevice ==
    /\ pc = "L184"
    /\ findDeviceAttr' = "custom_find_device"
    /\ pc' = "L185"
    /\ UNCHANGED <<argv, address, connectAttr, original_connect, subscribed,
                   connVars, sessVars, outVars, findVars,
                   recvVars, loopTrace>>

\* variant of CaptureOriginalConnect: the name is bound after the override
\* is installed, so it names the override
CaptureOriginalConnect_AfterInstall ==
    /\ pc = "L185"
    /\ original_connect' = "custom_connect"
    /\ pc' = "L186"
    /\ UNCHANGED <<argv, address, findDeviceAttr, connectAttr, subscribed,
                   connVars, sessVars, outVars, findVars,
                   recvVars, loopTrace>>

\* line 185: _original_connect = BLEInterface.connect
CaptureOriginalConnect ==
    /\ pc = "L185"
    /\ original_connect' = connectAttr
    /\ pc' = "L186"
    /\ UNCHANGED <<argv, address, findDeviceAttr, connectAttr, subscribed,
                   connVars, sessVars, outVars, findVars,
                   recvVars, loopTrace>>

\* line 186: BLEInterface.connect = custom_connect
InstallConnect ==
    /\ pc = "L186"
    /\ connectAttr' = "custom_connect"
    /\ pc' = "L189"
    /\ UNCHANGED <<argv, address, findDeviceAttr, original_connect, subscribed,
                   connVars, sessVars, outVars, findVars,
                   recvVars, loopTrace>>

\* lines 189-191: pub.subscribe(onReceive, ...); asyncio.run(main())
SubscribeAndRun ==
    /\ pc = "L189"
    /\ subscribed' = TRUE
    /\ pc' = "main"
    /\ UNCHANGED <<argv, address, findDeviceAttr, connectAttr, original_connect,
                   connVars, sessVars, outVars, findVars,
                   recvVars, loopTrace>>

----------------------------------------------------------------------------
(* main(), lines 144-160: argument check and connection.                   *)

\* lines 145-150
CheckArgs ==
    /\ pc = "main"
    /\ IF Len(argv) < 2
       THEN /\ console' = Emit(console, "Usage: python bimcc.py <BLE_DEVICE_ADDRESS>", NoArg)
            /\ exitStatus' = <<1>>
            /\ pc' = "exited"
            /\ UNCHANGED address
       ELSE /\ address' = PyStr(Strip(argv[2]))
            /\ console' = Emit(console, "Attempting to connect to BLE device at address: ",
                                Strip(argv[2]))
            /\ pc' = "ctor"
            /\ UNCHANGED exitStatus
    /\ UNCHANGED <<argv, patchVars, connVars, sessVars, findVars,
                   recvVars, loopTrace>>

\* line 154: BLEInterface(address=address); the constructor calls
\* self.connect(address), which is whatever BLEInterface.connect is bound to
ConstructInterface ==
    /\ pc = "ctor"
    /\ ctorCalls' = ctorCalls + 1
    /\ pc' = IF connectAttr = "custom_connect" THEN "cc_entry" ELSE "orig_connect"
    /\ UNCHANGED <<argv, address, patchVars, overrideCalls, originalCalls,
                   directClients, cbRegistered, linkOpen, connectOk, discoverOk,
                   sessVars, outVars, findVars,
                   recvVars, loopTrace>>

----------------------------------------------------------------------------
(* custom_connect, lines 91-97.                                            *)

\* lines 91-92 and 96-97: the branch on "if address:"
CustomConnectEntry ==
    /\ pc = "cc_entry"
    /\ overrideCalls' = overrideCalls + 1
    /\ IF Truthy(address)
       THEN /\ directClients' = directClients + 1
            /\ cbRegistered' = TRUE
            /\ pc' = "cc_connect"
            /\ UNCHANGED exc
       ELSE \* line 97 calls whatever the name _original_connect is bound to
            /\ IF original_connect = "library_connect"
               THEN /\ pc' = "orig_connect"
                    /\ UNCHANGED exc
               ELSE IF original_connect = "unset"
               THEN /\ exc' = "NameError"
                    /\ pc' = "cc_raised"
               ELSE IF overrideCalls + 1 < RecursionLimit
               THEN \* the override calls itself
                    /\ pc' = "cc_entry"
                    /\ UNCHANGED exc
               ELSE /\ exc' = "RecursionError"
                    /\ pc' = "cc_raised"
            /\ UNCHANGED <<directClients, cbRegistered>>
    /\ UNCHANGED <<argv, address, patchVars, ctorCalls, originalCalls, linkOpen,
                   connectOk, discoverOk, ble_iface, closeCalls, linkDropped,
                   cbFired, linesRead, msg, sendCalls, sendFailures, interrupt,
                   interruptAt, cancelPending, outVars, findVars,
                   recvVars, loopTrace>>

\* line 93: client.connect(), which returns or raises
ClientConnect ==
    /\ pc = "cc_connect"
    /\ \E ok \in BOOLEAN :
         IF ok
         THEN /\ linkOpen' = TRUE
              /\ connectOk' = TRUE
              /\ pc' = "cc_discover"
              /\ UNCHANGED exc
         ELSE /\ exc' = "ConnectFailed"
              /\ pc' = "cc_raised"
              /\ UNCHANGED <<linkOpen, connectOk>>
    /\ UNCHANGED <<argv, address, patchVars, ctorCalls, overrideCalls, originalCalls,
                   directClients, cbRegistered, discoverOk,
                   ble_iface, closeCalls, linkDropped, cbFired, linesRead, msg, sendCalls,
                   sendFailures, interrupt, interruptAt, cancelPending, outVars,
                   findVars,
                   recvVars, loopTrace>>

\* lines 94-95: client.discover(), then return client; a raise leaves the
\* function at once, the client is not touched again
ClientDiscover ==
    /\ pc = "cc_discover"
    /\ \E ok \in BOOLEAN :
         IF ok
         THEN /\ discoverOk' = TRUE
              /\ pc' = "cc_returned"
              /\ UNCHANGED exc
         ELSE /\ exc' = "DiscoveryFailed"
              /\ pc' = "cc_raised"
              /\ UNCHANGED discoverOk
    /\ UNCHANGED <<argv, address, patchVars, ctorCalls, overrideCalls, originalCalls,
                   directClients, cbRegistered, linkOpen, connectOk,
                   ble_iface, closeCalls, linkDropped, cbFired, linesRead, msg, sendCalls,
                   sendFailures, interrupt, interruptAt, cancelPending, outVars,
                   findVars,
                   recvVars, loopTrace>>

\* line 97: return _original_connect(self, address): the library's routine
\* (find the device, connect, discover), which returns a ready client or raises
OriginalConnect ==
    /\ pc = "orig_connect"
    /\ originalCalls' = originalCalls + 1
    /\ \E outcome \in {"ok", "DeviceNotFound", "ConnectFailed", "DiscoveryFailed"} :
         IF outcome = "ok"
         THEN /\ linkOpen' = TRUE
              /\ connectOk' = TRUE
              /\ discoverOk' = TRUE
              /\ pc' = "cc_returned"
              /\ UNCHANGED exc
         ELSE /\ exc' = outcome
              /\ pc' = "cc_raised"
              /\ UNCHANGED <<linkOpen, connectOk, discoverOk>>
    /\ UNCHANGED <<argv, address, patchVars, ctorCalls, overrideCalls,
                   directClients, cbRegistered,
                   ble_iface, closeCalls, linkDropped, cbFired, linesRead, msg, sendCalls,
                   sendFailures, interrupt, interruptAt, cancelPending, outVars,
                   findVars,
                   recvVars, loopTrace>>

----------------------------------------------------------------------------
(* main(), lines 154-166: the outcome of the construction.                 *)

\* lines 154-155: the constructor returned; ble_iface is bound, the success
\* line is printed and time.sleep(2) starts
ConstructorReturns ==
    /\ pc = "cc_returned"
    /\ ble_iface' = "open"
    /\ console' = Emit(console, "Connected to BLE device!", NoArg)
    /\ pc' = "stabilise"
    /\ UNCHANGED <<argv, address, patchVars, connVars, closeCalls, linkDropped,
                   cbFired, linesRead, msg, sendCalls, sendFailures, exc,
                   interrupt, interruptAt, cancelPending, exitStatus, findVars,
                   recvVars, loopTrace>>

\* variant of ConstructorRaises: the handler prints and does not exit
ConstructorRaises_NoExit ==
    /\ pc = "cc_raised"
    /\ console' = Emit(console, "Error initializing BLE interface:", <<exc>>)
    /\ pc' = "stabilise"
    /\ UNCHANGED <<argv, address, patchVars, connVars, sessVars, exitStatus,
                   findVars,
                   recvVars, loopTrace>>

\* variant of ConstructorRaises: the handler exits with status 0
ConstructorRaises_ExitZero ==
    /\ pc = "cc_raised"
    /\ console' = Emit(console, "Error initializing BLE interface:", <<exc>>)
    /\ exitStatus' = <<0>>
    /\ pc' = "exited"
    /\ UNCHANGED <<argv, address, patchVars, connVars, sessVars, findVars,
                   recvVars, loopTrace>>

\* lines 158-160: except Exception as e: print(...); sys.exit(1)
ConstructorRaises ==
    /\ pc = "cc_raised"
    /\ console' = Emit(console, "Error initializing BLE interface:", <<exc>>)
    /\ exitStatus' = <<1>>
    /\ pc' = "exited"
    /\ UNCHANGED <<argv, address, patchVars, connVars, sessVars, findVars,
                   recvVars, loopTrace>>

\* input("Ch0> ") is handed to the executor: the prompt is written
EnterInputWait(out) == EmitEnd(out, PromptText, NoArg, "")

\* lines 157-172: the sleep ends, the banner is printed and the loop is
\* entered: the first input() is started and main() awaits it
StabiliseDone ==
    /\ pc = "stabilise"
    /\ console' = EnterInputWait(
           Emit(Emit(Emit(Emit(Emit(console,
               "BLE Interactive Meshtastic Chat Client 0.1.0", NoArg),
               "--------------------------------------------", NoArg),
               "Type your message and press Enter to send.", NoArg),
               "Press Ctrl+C to exit...", NoArg),
               "", NoArg))
    /\ pc' = "wait_input"
    /\ UNCHANGED <<argv, address, patchVars, connVars, sessVars, exitStatus,
                   findVars,
                   recvVars, loopTrace>>

----------------------------------------------------------------------------
(* main(), lines 169-175: the read loop.                                   *)

AwaitPoints == {"wait_input", "yield"}
LoopPoints == {"wait_input", "send", "sending", "yield"}

\* variant of ReadLine: the test of line 173 is missing, every line is sent
ReadLine_SendsEveryLine ==
    /\ pc = "wait_input"
    /\ ~cancelPending
    /\ Len(linesRead) < MaxLines
    /\ \E line \in Lines :
         /\ linesRead' = Append(linesRead, line)
         /\ msg' = line
         /\ pc' = "send"
    /\ loopTrace' = Append(loopTrace, "read")
    /\ UNCHANGED <<argv, address, patchVars, connVars, ble_iface, closeCalls,
                   linkDropped, cbFired, sendCalls, sendFailures, exc, interrupt,
                   interruptAt, cancelPending, outVars, findVars,
                   recvVars>>

\* lines 172-173: input() returns a line; an empty one goes round the loop
ReadLine ==
    /\ pc = "wait_input"
    /\ ~cancelPending
    /\ Len(linesRead) < MaxLines
    /\ \E line \in Lines :
         /\ linesRead' = Append(linesRead, line)
         /\ msg' = line
         /\ IF line # ""
            THEN /\ pc' = "send"
                 /\ UNCHANGED console
            ELSE /\ pc' = "wait_input"
                 /\ console' = EnterInputWait(console)
    /\ loopTrace' = Append(loopTrace, "read")
    /\ UNCHANGED <<argv, address, patchVars, connVars, ble_iface, closeCalls,
                   linkDropped, cbFired, sendCalls, sendFailures, exc, interrupt,
                   interruptAt, cancelPending, exitStatus, findVars,
                   recvVars>>

\* line 172: input() raises (end of input); the exception reaches the await
InputFails ==
    /\ pc = "wait_input"
    /\ ~cancelPending
    /\ exc' = "EOFError"
    /\ pc' = "finally"
    /\ UNCHANGED <<argv, address, patchVars, connVars, ble_iface, closeCalls,
                   linkDropped, cbFired, linesRead, msg, sendCalls, sendFailures,
                   interrupt, interruptAt, cancelPending, outVars, findVars,
                   recvVars, loopTrace>>

\* variant of SendCall: the newest message goes out ahead of the earlier
\* ones
SendCall_NewestFirst ==
    /\ pc = "send"
    /\ sendCalls' = <<[text |-> msg, channelIndex |-> 0]>> \o sendCalls
    /\ loopTrace' = Append(loopTrace, "call")
    /\ pc' = "sending"
    /\ UNCHANGED <<argv, address, patchVars, connVars, ble_iface, closeCalls,
                   linkDropped, cbFired, linesRead, msg, sendFailures, exc,
                   interrupt, interruptAt, cancelPending, outVars, findVars,
                   recvVars>>

\* line 174: ble_iface.sendText(msg, channelIndex=0) is called
SendCall ==
    /\ pc = "send"
    /\ sendCalls' = Append(sendCalls, [text |-> msg, channelIndex |-> 0])
    /\ pc' = "sending"
    /\ loopTrace' = Append(loopTrace, "call")
    /\ UNCHANGED <<argv, address, patchVars, connVars, ble_iface, closeCalls,
                   linkDropped, cbFired, linesRead, msg, sendFailures, exc,
                   interrupt, interruptAt, cancelPending, outVars, findVars,
                   recvVars>>

\* variant of SendReturn: a failed send is caught, reported and the loop
\* goes on
SendReturn_CatchAndContinue ==
    /\ pc = "sending"
    /\ \E ok \in BOOLEAN :
         IF ok
         THEN /\ pc' = "yield"
              /\ loopTrace' = Append(loopTrace, "return")
              /\ UNCHANGED <<exc, sendFailures, console>>
         ELSE /\ loopTrace' = Append(loopTrace, "raise")
              /\ sendFailures' = sendFailures + 1
              /\ console' = Emit(console, "Error sending message:", <<"SendFailed">>)
              /\ pc' = "yield"
              /\ UNCHANGED exc
    /\ UNCHANGED <<argv, address, patchVars, connVars, ble_iface, closeCalls,
                   linkDropped, cbFired, linesRead, msg, sendCalls, interrupt,
                   interruptAt, cancelPending, exitStatus, findVars,
                   recvVars>>

\* variant of SendReturn: the loop goes straight back to input() after a
\* send, without the sleep of line 175
SendReturn_NoYield ==
    /\ pc = "sending"
    /\ \E ok \in BOOLEAN :
         IF ok
         THEN /\ pc' = "wait_input"
              /\ loopTrace' = Append(loopTrace, "return")
              /\ console' = EnterInputWait(console)
              /\ UNCHANGED <<exc, sendFailures>>
         ELSE /\ loopTrace' = Append(loopTrace, "raise")
              /\ exc' = "SendFailed"
              /\ sendFailures' = sendFailures + 1
              /\ pc' = "finally"
              /\ UNCHANGED console
    /\ UNCHANGED <<argv, address, patchVars, connVars, ble_iface, closeCalls,
                   linkDropped, cbFired, linesRead, msg, sendCalls, interrupt,
                   interruptAt, cancelPending, exitStatus, findVars,
                   recvVars>>

\* lines 174-175: sendText returns and asyncio.sleep(0.1) starts, or
\* sendText raises; nothing in the try statement catches that
SendReturn ==
    /\ pc = "sending"
    /\ \E ok \in BOOLEAN :
         IF ok
         THEN /\ pc' = "yield"
              /\ loopTrace' = Append(loopTrace, "return")
              /\ UNCHANGED <<exc, sendFailures>>
         ELSE /\ loopTrace' = Append(loopTrace, "raise")
              /\ exc' = "SendFailed"
              /\ sendFailures' = sendFailures + 1
              /\ pc' = "finally"
    /\ UNCHANGED <<argv, address, patchVars, connVars, ble_iface, closeCalls,
                   linkDropped, cbFired, linesRead, msg, sendCalls, interrupt,
                   interruptAt, cancelPending, outVars, findVars,
                   recvVars>>

\* lines 175 and 172: the sleep ends and the next input() is started
YieldDone ==
    /\ pc = "yield"
    /\ ~cancelPending
    /\ pc' = "wait_input"
    /\ console' = EnterInputWait(console)
    /\ loopTrace' = Append(loopTrace, "yield")
    /\ UNCHANGED <<argv, address, patchVars, connVars, sessVars, exitStatus,
                   findVars,
                   recvVars>>

----------------------------------------------------------------------------
(* The user interrupt (Ctrl+C).  How SIGINT reaches main() depends on the  *)
(* interpreter: it is raised as KeyboardInterrupt at the point of          *)
(* execution, or the main task is cancelled and CancelledError is raised   *)
(* at the await the task is suspended in (or next suspends in).  Both      *)
(* outcomes are allowed at every point.  One interrupt per run.            *)

InterruptKinds == {"KeyboardInterrupt", "CancelledError"}

\* where main() takes time: the sleep of line 157, the two awaits and the
\* sendText call
InterruptPoints == {"stabilise", "wait_input", "sending", "yield"}

\* where control goes when `kind` is raised at position `at`:
\* line 176 catches KeyboardInterrupt inside the try statement of line 169;
\* line 158 (except Exception) catches neither kind; the finally clause of
\* line 178 runs for everything raised inside the try statement
RaiseAt(at, kind) ==
    IF at \in LoopPoints
    THEN IF kind = "KeyboardInterrupt" THEN "except_ki" ELSE "finally"
    ELSE "exited"

UserInterrupt ==
    /\ interrupt = "none"
    /\ pc \in InterruptPoints
    /\ \E kind \in InterruptKinds :
         /\ interrupt' = kind
         /\ interruptAt' = pc
         /\ IF kind = "CancelledError" /\ pc \notin AwaitPoints
            THEN \* the cancellation waits for the next await
                 /\ cancelPending' = TRUE
                 /\ UNCHANGED <<pc, exc, exitStatus>>
            ELSE /\ exc' = kind
                 /\ pc' = RaiseAt(pc, kind)
                 \* raised outside the try statement: main() is left, the
                 \* interpreter ends with the status of an uncaught interrupt
                 /\ exitStatus' = IF RaiseAt(pc, kind) = "exited" THEN <<130>> ELSE exitStatus
                 /\ UNCHANGED cancelPending
    /\ UNCHANGED <<argv, address, patchVars, connVars, ble_iface, closeCalls,
                   linkDropped, cbFired, linesRead, msg, sendCalls, sendFailures,
                   console, findVars,
                   recvVars, loopTrace>>

\* a pending cancellation is raised at the await main() has reached
DeliverCancel ==
    /\ cancelPending
    /\ pc \in AwaitPoints
    /\ cancelPending' = FALSE
    /\ exc' = "CancelledError"
    /\ pc' = RaiseAt(pc, "CancelledError")
    /\ UNCHANGED <<argv, address, patchVars, connVars, ble_iface, closeCalls,
                   linkDropped, cbFired, linesRead, msg, sendCalls, sendFailures,
                   interrupt, interruptAt, outVars, findVars,
                   recvVars, loopTrace>>

----------------------------------------------------------------------------
(* main(), lines 176-180: leaving the loop.                                *)

\* BLEInterface.close() as the script uses it: the interface is closed and
\* the link released
InterfaceClose ==
    /\ closeCalls' = closeCalls + 1
    /\ ble_iface' = "closed"
    /\ linkOpen' = FALSE

\* variant of ExceptKeyboardInterrupt: the handler closes the interface
\* itself, and the finally clause closes it again
ExceptKeyboardInterrupt_AlsoCloses ==
    /\ pc = "except_ki"
    /\ console' = Emit(console, "\nExiting...", NoArg)
    /\ InterfaceClose
    /\ pc' = "finally"
    /\ UNCHANGED <<argv, address, patchVars, ctorCalls, overrideCalls,
                   originalCalls, directClients, cbRegistered, connectOk,
                   discoverOk, linkDropped, cbFired, linesRead, msg, sendCalls,
                   sendFailures, exc, interrupt, interruptAt, cancelPending,
                   exitStatus, findVars,
                   recvVars, loopTrace>>

\* lines 176-177: except KeyboardInterrupt: print("\nExiting...")
ExceptKeyboardInterrupt ==
    /\ pc = "except_ki"
    /\ console' = Emit(console, "\nExiting...", NoArg)
    /\ pc' = "finally"
    /\ UNCHANGED <<argv, address, patchVars, connVars, sessVars, exitStatus,
                   findVars,
                   recvVars, loopTrace>>

\* variant of FinallyClose: the finally clause exits without closing
FinallyClose_Skipped ==
    /\ pc = "finally"
    /\ pc' = "finally_exit"
    /\ UNCHANGED <<argv, address, patchVars, connVars, sessVars, outVars,
                   findVars,
                   recvVars, loopTrace>>

\* line 179: ble_iface.close()
FinallyClose ==
    /\ pc = "finally"
    /\ InterfaceClose
    /\ pc' = "finally_exit"
    /\ UNCHANGED <<argv, address, patchVars, ctorCalls, overrideCalls,
                   originalCalls, directClients, cbRegistered, connectOk,
                   discoverOk, linkDropped, cbFired, linesRead, msg, sendCalls,
                   sendFailures, exc, interrupt, interruptAt, cancelPending,
                   outVars, findVars,
                   recvVars, loopTrace>>

\* variant of FinallyExit: the finally clause ends without sys.exit(0), so
\* an exception that the try statement did not catch leaves main()
FinallyExit_Propagates ==
    /\ pc = "finally_exit"
    /\ exitStatus' = IF exc \in {"SendFailed", "EOFError", "CancelledError"}
                      THEN <<1>> ELSE <<0>>
    /\ pc' = "exited"
    /\ UNCHANGED <<argv, address, patchVars, connVars, sessVars, console,
                   findVars,
                   recvVars, loopTrace>>

\* line 180: sys.exit(0); the SystemExit replaces whatever was being raised
FinallyExit ==
    /\ pc = "finally_exit"
    /\ exitStatus' = <<0>>
    /\ pc' = "exited"
    /\ UNCHANGED <<argv, address, patchVars, connVars, sessVars, console,
                   findVars,
                   recvVars, loopTrace>>

----------------------------------------------------------------------------
(* onReceive, lines 134-141.  A Python dict is a function from its keys;   *)
(* None is PyNone.                                                         *)

EmptyDict == [k \in {} |-> PyNone]
IsNone(v) == DOMAIN v = {"none"}

\* truth value of a packet in "if not packet:" (line 134)
TruthyDict(v) == ~IsNone(v) /\ DOMAIN v # {}

\* dict.get(key, default)
Get(d, key, default) == IF key \in DOMAIN d THEN d[key] ELSE default

\* "{value}" in an f-string, for a value that is a str or None
Format(v) == IF IsNone(v) THEN "None" ELSE v.str

\* variant of OnReceiveResult: the prompt is not printed again
OnReceiveResult_NoPrompt(p) ==
    IF ~TruthyDict(p)
    THEN [out |-> <<>>, raised |-> "none"]
    ELSE LET decoded == Get(p, "decoded", EmptyDict)
         IN  IF IsNone(decoded)
             THEN [out |-> <<>>, raised |-> "TypeError"]
             ELSE IF "text" \in DOMAIN decoded
             THEN [out |-> <<ConsoleEntry("\n{sender}: {message}",
                                          <<Format(Get(p, "fromId", PyStr("unknown"))),
                                            decoded["text"]>>)>>,
                   raised |-> "none"]
             ELSE [out |-> <<>>, raised |-> "none"]

\* the outcome of one call: what it prints, and the exception it raises
\* ("text" in decoded raises TypeError when decoded is None)
OnReceiveResult(p) ==
    IF ~TruthyDict(p)
    THEN [out |-> <<>>, raised |-> "none"]
    ELSE LET decoded == Get(p, "decoded", EmptyDict)
         IN  IF IsNone(decoded)
             THEN [out |-> <<>>, raised |-> "TypeError"]
             ELSE IF "text" \in DOMAIN decoded
             THEN LET sender == Get(p, "fromId", PyStr("unknown"))
                      message == decoded["text"]
                  IN  [out |-> <<ConsoleEntry("\n{sender}: {message}",
                                             <<Format(sender), message>>),
                                ConsoleEntryEnd(PromptText, NoArg, "")>>,
                       raised |-> "none"]
             ELSE [out |-> <<>>, raised |-> "none"]

\* the packets the bus can deliver; the library sets fromId to None when it
\* does not know the sending node
Senders == {PyStr("node1"), PyStr("node2"), PyNone}
Texts == {"hi", ""}

OptionalField(key, values) ==
    {EmptyDict} \cup {[k \in {key} |-> v] : v \in values}

Join(f, g) ==
    [k \in DOMAIN f \cup DOMAIN g |-> IF k \in DOMAIN f THEN f[k] ELSE g[k]]

DecodedDicts ==
    {Join(t, n) : t \in OptionalField("text", Texts),
                  n \in OptionalField("portnum", {"TEXT_MESSAGE_APP"})}

Packets ==
    {PyNone} \cup
    {Join(Join(f, d), t) : f \in OptionalField("fromId", Senders),
                           d \in OptionalField("decoded", {PyNone} \cup DecodedDicts),
                           t \in OptionalField("to", {"^all"})}

\* the interface argument the publisher may pass along
Interfaces == {PyNone, [interface |-> TRUE]}

----------------------------------------------------------------------------
(* The transport: an unexpected link drop.                                 *)

\* line 92: disconnected_callback=lambda _: self.close
\* the lambda evaluates the bound method self.close and returns it; it is
\* not called
DisconnectedCallback ==
    UNCHANGED <<ble_iface, closeCalls>>

\* the link of a client made by custom_connect drops while the interface is
\* in use; the client runs the registered callback
LinkDrop ==
    /\ pc \in {"stabilise"} \cup LoopPoints
    /\ cbRegistered
    /\ linkOpen
    /\ linkOpen' = FALSE
    /\ linkDropped' = TRUE
    /\ cbFired' = cbFired + 1
    /\ DisconnectedCallback
    /\ UNCHANGED <<progVars, patchVars, ctorCalls, overrideCalls, originalCalls,
                   directClients, cbRegistered, connectOk, discoverOk, linesRead,
                   msg, sendCalls, sendFailures, exc, interrupt, interruptAt,
                   cancelPending, outVars, findVars,
                   recvVars, loopTrace>>

----------------------------------------------------------------------------
(* Inbound events during the session.  The handler was subscribed at line  *)
(* 189; the library publishes "meshtastic.receive" from its own thread, so *)
(* onReceive runs wherever main() is.                                      *)

MaxEvents == 1

\* the events delivered during a session: a text message and a packet
\* that is decoded but carries no text
EventPackets ==
    { Join([k \in {"fromId"} |-> PyStr("node1")],
           [k \in {"decoded"} |-> [j \in {"text"} |-> "hi"]]),
      Join([k \in {"fromId"} |-> PyStr("node2")],
           [k \in {"decoded"} |-> [j \in {"portnum"} |-> "TEXT_MESSAGE_APP"]]) }

\* variant of InboundEvent: the handler runs on the event loop of main(),
\* which only turns while main() is suspended in the input wait
InboundEvent_OnlyAtInputWait ==
    /\ subscribed
    /\ ble_iface = "open"
    /\ Running
    /\ pc = "wait_input"
    /\ eventsDelivered < MaxEvents
    /\ \E p \in EventPackets :
         /\ packet' = p
         /\ console' = console \o OnReceiveResult(p).out
         /\ recvRaised' = OnReceiveResult(p).raised
    /\ eventsDelivered' = eventsDelivered + 1
    /\ deliveredAt' = Append(deliveredAt, pc)
    /\ UNCHANGED <<progVars, patchVars, connVars, sessVars, exitStatus,
                   findVars, interface, loopTrace>>

\* lines 134-141 and 189: one inbound event is published and onReceive
\* handles it; main() stays where it is
InboundEvent ==
    /\ subscribed
    /\ ble_iface = "open"
    /\ Running
    /\ eventsDelivered < MaxEvents
    /\ \E p \in EventPackets :
         /\ packet' = p
         /\ console' = console \o OnReceiveResult(p).out
         /\ recvRaised' = OnReceiveResult(p).raised
    /\ eventsDelivered' = eventsDelivered + 1
    /\ deliveredAt' = Append(deliveredAt, pc)
    /\ UNCHANGED <<progVars, patchVars, connVars, sessVars, exitStatus,
                   findVars, interface, loopTrace>>

----------------------------------------------------------------------------
(* The run of the script.                                                  *)

FindIdle ==
    /\ devices = <<>>
    /\ target = <<>>
    /\ found = <<>>
    /\ findRaised = FALSE

RecvIdle ==
    /\ packet = PyNone
    /\ interface = PyNone
    /\ recvRaised = "none"
    /\ eventsDelivered = 0
    /\ deliveredAt = <<>>

\* the state of the interpreter before the script has run any statement

Fresh ==
    /\ findDeviceAttr = "library_find_device"
    /\ connectAttr = "library_connect"
    /\ original_connect = "unset"
    /\ subscribed = FALSE
    /\ ctorCalls = 0
    /\ overrideCalls = 0
    /\ originalCalls = 0
    /\ directClients = 0
    /\ cbRegistered = FALSE
    /\ linkOpen = FALSE
    /\ connectOk = FALSE
    /\ discoverOk = FALSE
    /\ ble_iface = "unset"
    /\ closeCalls = 0
    /\ linkDropped = FALSE
    /\ cbFired = 0
    /\ linesRead = <<>>
    /\ msg = ""
    /\ sendCalls = <<>>
    /\ sendFailures = 0
    /\ exc = "none"
    /\ interrupt = "none"
    /\ interruptAt = "none"
    /\ cancelPending = FALSE
    /\ console = <<>>
    /\ exitStatus = <<>>

Init ==
    /\ pc = "L184"
    /\ argv \in Argvs
    /\ address = PyNone
    /\ Fresh
    /\ FindIdle
    /\ RecvIdle
    /\ loopTrace = <<>>

Next ==
    \/ InstallFindDevice
    \/ CaptureOriginalConnect
    \/ InstallConnect
    \/ SubscribeAndRun
    \/ CheckArgs
    \/ ConstructInterface
    \/ CustomConnectEntry
    \/ ClientConnect
    \/ ClientDiscover
    \/ OriginalConnect
    \/ ConstructorReturns
    \/ ConstructorRaises
    \/ StabiliseDone
    \/ ReadLine
    \/ InputFails
    \/ SendCall
    \/ SendReturn
    \/ YieldDone
    \/ UserInterrupt
    \/ DeliverCancel
    \/ ExceptKeyboardInterrupt
    \/ FinallyClose
    \/ FinallyExit
    \/ LinkDrop

Spec == Init /\ [][Next]_vars

\* the steps main() takes by itself once it is unwinding: the scheduler
\* runs them without waiting for the user or the transport
FairSpec ==
    /\ Spec
    /\ WF_vars(DeliverCancel)
    /\ WF_vars(ExceptKeyboardInterrupt)
    /\ WF_vars(FinallyClose)
    /\ WF_vars(FinallyExit)

----------------------------------------------------------------------------
(* custom_connect on its own: every kind of address argument, with the     *)
(* overrides installed as lines 184-186 leave them.                        *)

Addresses == {PyNone} \cup {PyStr(s) : s \in StringsUpTo(MaxArgLen)}

InitConnect ==
    /\ pc = "cc_entry"
    /\ argv = <<Program>>
    /\ address \in Addresses
    /\ findDeviceAttr = "custom_find_device"
    /\ connectAttr = "custom_connect"
    /\ original_connect = "library_connect"
    /\ subscribed = TRUE
    /\ ctorCalls = 0
    /\ overrideCalls = 0
    /\ originalCalls = 0
    /\ directClients = 0
    /\ cbRegistered = FALSE
    /\ linkOpen = FALSE
    /\ connectOk = FALSE
    /\ discoverOk = FALSE
    /\ ble_iface = "unset"
    /\ closeCalls = 0
    /\ linkDropped = FALSE
    /\ cbFired = 0
    /\ linesRead = <<>>
    /\ msg = ""
    /\ sendCalls = <<>>
    /\ sendFailures = 0
    /\ exc = "none"
    /\ interrupt = "none"
    /\ interruptAt = "none"
    /\ cancelPending = FALSE
    /\ console = <<>>
    /\ exitStatus = <<>>
    /\ FindIdle
    /\ RecvIdle
    /\ loopTrace = <<>>

NextConnect ==
    \/ CustomConnectEntry
    \/ ClientConnect
    \/ ClientDiscover
    \/ OriginalConnect

SpecConnect == InitConnect /\ [][NextConnect]_vars

----------------------------------------------------------------------------
(* custom_find_device, lines 49-57.                                        *)

\* str.lower() on the characters of the model
LowerChar(c) ==
    CASE c = "A" -> "a"
      [] c = "B" -> "b"
      [] OTHER -> c

\* variant of Lower: the address is compared as it is
Lower_Identity(s) == s

Lower(s) == [i \in 1..Len(s) |-> LowerChar(s[i])]

\* variant of PrintDevices: printing and matching share one loop, which is
\* left at the first match
RECURSIVE PrintDevices_StopAtMatch(_, _)
PrintDevices_StopAtMatch(out, ds) ==
    IF ds = <<>> THEN out
    ELSE LET printed == Emit(out, "  Address: , Name: ",
                             Head(ds).address \o <<", Name: ", Head(ds).name>>)
         IN  IF Lower(Head(ds).address) = Lower(target) THEN printed
             ELSE PrintDevices_StopAtMatch(printed, Tail(ds))

\* lines 51-52: one line per device, in scan order
RECURSIVE PrintDevices(_, _)
PrintDevices(out, ds) ==
    IF ds = <<>> THEN out
    ELSE PrintDevices(
             Emit(out, "  Address: , Name: ", Head(ds).address \o <<", Name: ", Head(ds).name>>),
             Tail(ds))

\* lines 53-56: the loop returns the first device whose lowered address
\* equals the lowered target; <<>> when the loop ends without returning
RECURSIVE FirstMatch(_, _)
FirstMatch(ds, a) ==
    IF ds = <<>> THEN <<>>
    ELSE IF Lower(Head(ds).address) = Lower(a) THEN <<Head(ds)>>
    ELSE FirstMatch(Tail(ds), a)

\* the descriptors a scan can report
Descriptors ==
    { [address |-> <<"a", "b">>, name |-> "n1"],
      [address |-> <<"A", "b">>, name |-> "n2"],
      [address |-> <<"b", "a">>, name |-> "n3"],
      [address |-> <<"b">>,      name |-> "n1"] }

RECURSIVE ListsUpTo(_)
ListsUpTo(n) ==
    IF n = 0 THEN {<<>>}
    ELSE LET shorter == ListsUpTo(n - 1)
         IN  shorter \cup {Append(l, d) : l \in {m \in shorter : Len(m) = n - 1}, d \in Descriptors}

\* line 49: devices = BLEInterface.scan()
FindScan ==
    /\ pc = "find_entry"
    /\ devices' \in ListsUpTo(MaxDevices)
    /\ pc' = "find_print"
    /\ UNCHANGED <<argv, address, patchVars, connVars, sessVars, outVars,
                   target, found, findRaised,
                   recvVars, loopTrace>>

\* lines 50-52: the header and every device are printed
FindPrint ==
    /\ pc = "find_print"
    /\ console' = PrintDevices(Emit(console, "Discovered Devices:", NoArg), devices)
    /\ pc' = "find_match"
    /\ UNCHANGED <<argv, address, patchVars, connVars, sessVars, exitStatus,
                   findVars,
                   recvVars, loopTrace>>

\* lines 53-57: return the first match or raise
FindMatch ==
    /\ pc = "find_match"
    /\ found' = FirstMatch(devices, target)
    /\ findRaised' = (FirstMatch(devices, target) = <<>>)
    /\ pc' = "find_done"
    /\ UNCHANGED <<argv, address, patchVars, connVars, sessVars, outVars,
                   devices, target,
                   recvVars, loopTrace>>

InitFind ==
    /\ pc = "find_entry"
    /\ argv = <<Program>>
    /\ address = PyNone
    /\ Fresh
    /\ devices = <<>>
    /\ target \in StringsUpTo(MaxArgLen)
    /\ found = <<>>
    /\ findRaised = FALSE
    /\ RecvIdle
    /\ loopTrace = <<>>

NextFind ==
    \/ FindScan
    \/ FindPrint
    \/ FindMatch

SpecFind == InitFind /\ [][NextFind]_vars

----------------------------------------------------------------------------
(* One call of onReceive on its own.                                       *)

\* one call onReceive(packet=..., interface=...)
OnReceive ==
    /\ pc = "recv_entry"
    /\ console' = console \o OnReceiveResult(packet).out
    /\ recvRaised' = OnReceiveResult(packet).raised
    /\ eventsDelivered' = eventsDelivered + 1
    /\ deliveredAt' = Append(deliveredAt, pc)
    /\ pc' = "recv_done"
    /\ UNCHANGED <<argv, address, patchVars, connVars, sessVars, exitStatus,
                   findVars, packet, interface, loopTrace>>

InitReceive ==
    /\ pc = "recv_entry"
    /\ argv = <<Program>>
    /\ address = PyNone
    /\ Fresh
    /\ FindIdle
    /\ packet \in Packets
    /\ interface \in Interfaces
    /\ recvRaised = "none"
    /\ eventsDelivered = 0
    /\ deliveredAt = <<>>
    /\ loopTrace = <<>>

NextReceive ==
    \/ OnReceive

SpecReceive == InitReceive /\ [][NextReceive]_vars

----------------------------------------------------------------------------
(* Properties.                                                             *)

HasLine(l) == \E i \in 1..Len(console) : console[i].line = l

\* the session is (or was) Connected: the banner of lines 162-166 has been
\* printed and the read loop entered
ReachedConnected == HasLine("Press Ctrl+C to exit...")

\* the construction of line 154 raised
ConstructionFailures == {"DeviceNotFound", "ConnectFailed", "DiscoveryFailed"}
ConstructionFailed == exc \in ConstructionFailures

\* C1: once the session is Connected, a user interrupt that arrives while
\* the loop waits for a line of input leads to ble_iface.close() being
\* called and then to the process exiting with status 0; the process never
\* exits after such an interrupt with the handle unclosed or with another
\* status.
C1_InterruptAtInputClosesThenExitsZero ==
    /\ [](interruptAt = "wait_input" /\ ~Running
            => closeCalls >= 1 /\ ble_iface = "closed" /\ ExitedWith(0))
    /\ (interruptAt = "wait_input") ~> (closeCalls >= 1 /\ ExitedWith(0))

C1_Witness ==
    /\ ReachedConnected
    /\ interruptAt = "wait_input"
    /\ closeCalls = 1
    /\ ExitedWith(0)

\* C2: in every run that reaches Connected, close() is never called more
\* than once, and has been called exactly once when the process has
\* terminated, whatever ended the loop (interrupt, exception, with or
\* without a link drop that fired the disconnect callback).
C2_CloseRunsExactlyOnce ==
    ReachedConnected =>
        /\ closeCalls <= 1
        /\ ~Running => closeCalls = 1

C2_Witness ==
    /\ ReachedConnected
    /\ linkDropped
    /\ cbFired = 1
    /\ interrupt # "none"
    /\ ~Running
    /\ closeCalls = 1

\* C3: when the link of a connection made by custom_connect with a known
\* address drops, the disconnect callback has invoked the interface's
\* close routine: the interface is closed and the session is no longer
\* prompting or sending in Connected.
C3_LinkDropInvokesClose ==
    (cbFired > 0 /\ Truthy(address)) =>
        /\ closeCalls >= 1
        /\ ble_iface = "closed"
        /\ pc \notin LoopPoints

C5_NonNullAddressNeverFallsBack ==
    /\ (address # PyNone /\ overrideCalls > 0) =>
           /\ pc # "orig_connect"
           /\ originalCalls = 0
           /\ directClients = 1
    /\ (address = PyNone /\ overrideCalls > 0) =>
           /\ directClients = 0
           /\ pc = "orig_connect" \/ originalCalls = 1


\* case-insensitive equality of two addresses, letter by letter
UpperOf(c) ==
    CASE c = "a" -> "A"
      [] c = "b" -> "B"
      [] OTHER -> c

SameLetter(c, d) == c = d \/ c = UpperOf(d) \/ d = UpperOf(c)

CaseInsensitiveEqual(s, t) ==
    /\ Len(s) = Len(t)
    /\ \A i \in 1..Len(s) : SameLetter(s[i], t[i])

MatchingIndices(ds, a) ==
    {i \in 1..Len(ds) : CaseInsensitiveEqual(ds[i].address, a)}

Minimum(S) == CHOOSE x \in S : \A y \in S : x <= y

\* the orderings of a list
Orderings(ds) ==
    LET n == Len(ds)
        perms == {f \in [1..n -> 1..n] : \A i \in 1..n : \E j \in 1..n : f[j] = i}
    IN  {[i \in 1..n |-> ds[f[i]]] : f \in perms}

\* C6: for every scan result list and target address, custom_find_device
\* returns the first descriptor in scan order whose address equals the
\* target case-insensitively, raises exactly when no descriptor matches,
\* and when one descriptor only matches, returns it for every ordering of
\* the list.
C6_FindDeviceFirstCaseInsensitiveMatch ==
    pc = "find_done" =>
        LET hits == MatchingIndices(devices, target)
        IN  /\ findRaised <=> hits = {}
            /\ hits = {} => found = <<>>
            /\ hits # {} => found = <<devices[Minimum(hits)]>>
            /\ Cardinality({devices[i] : i \in hits}) = 1 =>
                   \A other \in Orderings(devices) :
                       FirstMatch(other, target) = found

\* a match that differs from the target in case, found behind a device
\* that does not match, with a second match after it
C6_Witness ==
    /\ pc = "find_done"
    /\ found # <<>>
    /\ found[1].address # target
    /\ devices[1] # found[1]
    /\ Cardinality(MatchingIndices(devices, target)) = 2

\* the lines read so far that are not empty
NonEmptyLinesRead == SelectSeq(linesRead, LAMBDA l : l # "")

\* C7: in the read loop an empty line causes no sendText call and brings
\* the loop back to the prompt; every non-empty line causes exactly one
\* sendText call, with that line as text and channelIndex 0: the calls
\* issued are, one for one, the non-empty lines read (the last of them
\* possibly still to be issued).
C7_OneSendPerNonEmptyLine ==
    /\ [](/\ Len(sendCalls) = Len(NonEmptyLinesRead) - (IF pc = "send" THEN 1 ELSE 0)
          /\ \A k \in 1..Len(sendCalls) :
                 sendCalls[k] = [text |-> NonEmptyLinesRead[k], channelIndex |-> 0]
          /\ pc = "send" => msg # "")
    /\ [][(linesRead' # linesRead /\ msg' = "")
             => (sendCalls' = sendCalls /\ pc' = "wait_input"
                 /\ console' = EnterInputWait(console))]_vars

C7_Witness ==
    /\ linesRead = <<"", "hi">>
    /\ sendCalls = <<[text |-> "hi", channelIndex |-> 0]>>
    /\ pc = "yield"

\* C8: a send is issued (or about to be issued) only on a handle whose
\* connect call and discovery call have both succeeded and whose
\* construction has returned; while Connecting, and after a failed
\* connection attempt, no send has happened.
C8_SendOnlyAfterConnectAndDiscovery ==
    /\ (sendCalls # <<>> \/ pc \in {"send", "sending"}) =>
           (connectOk /\ discoverOk /\ ble_iface # "unset" /\ ~ConstructionFailed)
    /\ (ble_iface = "unset" \/ ConstructionFailed) => sendCalls = <<>>

C8_Witness ==
    /\ pc = "sending"
    /\ connectOk
    /\ discoverOk
    /\ Len(sendCalls) = 1

\* C9: with the address argument missing the process makes no connection
\* attempt and exits with status 1; when the construction of the
\* connection fails, there has been exactly one attempt, no line was read
\* and nothing sent, and the process exits with status 1 right after
\* printing the diagnostic.
C9_StartupFailuresExitOne ==
    /\ Len(argv) < 2 =>
           /\ ctorCalls = 0 /\ overrideCalls = 0 /\ originalCalls = 0
           /\ directClients = 0
           /\ ~Running => ExitedWith(1)
    /\ ConstructionFailed =>
           /\ ctorCalls = 1
           /\ overrideCalls = 1
           /\ ~ReachedConnected
           /\ linesRead = <<>>
           /\ sendCalls = <<>>
           /\ pc \in {"cc_raised", "exited"}
           /\ pc = "exited" =>
                  /\ ExitedWith(1)
                  /\ console[Len(console)].line = "Error initializing BLE interface:"
                  /\ console[Len(console)].arg = <<exc>>

\* a failed construction that has exited (the missing-argument exit is
\* reached from another initial state)
C9_Witness ==
    /\ ConstructionFailed
    /\ ctorCalls = 1
    /\ ExitedWith(1)

\* C10: a failure while Connecting leaves no partial connection open: when
\* the process has exited after a failed construction, the link that
\* client.connect() opened has been closed.
C10_FailedConnectingLeavesNoLinkOpen ==
    (ConstructionFailed /\ ~Running) => ~linkOpen


\* an inbound event carries a text payload: there is a packet, it has a
\* decoded field that is not null, and that field has a text key
HasTextPayload(p) ==
    /\ ~IsNone(p)
    /\ "decoded" \in DOMAIN p
    /\ ~IsNone(p["decoded"])
    /\ "text" \in DOMAIN p["decoded"]

\* C11: for every inbound event without a text payload (no packet, an
\* empty packet, no decoded field, a decoded field that is empty or null,
\* or one without a text key) onReceive prints nothing and raises nothing.
C11_EventWithoutTextIsSilent ==
    (pc = "recv_done" /\ ~HasTextPayload(packet)) =>
        /\ console = <<>>
        /\ recvRaised = "none"

\* the strings one console entry writes, in order
Rendered(entry) ==
    (IF entry.line = "\n{sender}: {message}"
     THEN <<"\n", entry.arg[1], ": ", entry.arg[2]>>
     ELSE <<entry.line>> \o entry.arg)
    \o (IF entry.end = "" THEN <<>> ELSE <<entry.end>>)

RECURSIVE Written(_)
Written(out) ==
    IF out = <<>> THEN <<>> ELSE Rendered(Head(out)) \o Written(Tail(out))

\* the sender id of an event, "unknown" when it has none (no fromId key, or
\* a null one)
SenderOf(p) ==
    IF "fromId" \in DOMAIN p /\ ~IsNone(p["fromId"]) THEN p["fromId"].str ELSE "unknown"

\* the sender as the code writes it: the fromId value as formatted, "unknown"
\* only when the key is missing
SenderWritten(p) ==
    IF "fromId" \notin DOMAIN p THEN "unknown"
    ELSE IF IsNone(p["fromId"]) THEN "None"
    ELSE p["fromId"].str

\* C12 as stated: for an event with a text payload onReceive writes a
\* newline, '<sender>: <text>' and then the prompt, and nothing else.
C12_TextEventWritesLineThenPrompt ==
    (pc = "recv_done" /\ HasTextPayload(packet)) =>
        /\ recvRaised = "none"
        /\ Written(console) =
               <<"\n", SenderOf(packet), ": ", packet["decoded"]["text"], PromptText>>

\* C12 as amended: the line '<sender>: <text>' is ended by the newline
\* print() appends, and the prompt follows on the next line with nothing
\* after it; <sender> is the fromId value as formatted (a null one is
\* written "None"), "unknown" when the packet has no fromId key.
C12_TextEventWritesTerminatedLineThenPrompt ==
    (pc = "recv_done" /\ HasTextPayload(packet)) =>
        /\ recvRaised = "none"
        /\ Written(console) =
               <<"\n", SenderWritten(packet), ": ", packet["decoded"]["text"], "\n",
                 PromptText>>

\* a text event without a sender id
C12_Witness ==
    /\ pc = "recv_done"
    /\ HasTextPayload(packet)
    /\ "fromId" \notin DOMAIN packet
    /\ Len(console) = 2
    /\ console[1].arg[1] = "unknown"


\* the errors that end the process
FatalErrors == ConstructionFailures \cup {"SendFailed", "EOFError"}

\* C13: every fatal error (a failure while Connecting, or an exception that
\* ends the read loop such as a failed send or a failed input read) has
\* had a diagnostic naming it printed when the process has exited.
C13_FatalErrorPrintsDiagnostic ==
    (~Running /\ exc \in FatalErrors) =>
        \E i \in 1..Len(console) : console[i].arg = <<exc>>

\* C14: a user interrupt that arrives at any point after the connection
\* handle was created (the stabilisation sleep, the input wait, the middle
\* of a send, the post-send yield) has closed the handle when the process
\* has exited.
C14_InterruptAlwaysClosesHandle ==
    (interrupt # "none" /\ ~Running) =>
        /\ closeCalls >= 1
        /\ ble_iface = "closed"

----------------------------------------------------------------------------
(* The order of the steps of the read loop (lines 170-175).                *)

\* the number of entries of the loop trace that are one of the given steps
RECURSIVE CountSteps(_, _)
CountSteps(trace, steps) ==
    IF trace = <<>> THEN 0
    ELSE (IF Head(trace) \in steps THEN 1 ELSE 0) + CountSteps(Tail(trace), steps)

\* the sends that were called and have neither returned nor raised
SendsInProgress ==
    CountSteps(loopTrace, {"call"}) - CountSteps(loopTrace, {"return", "raise"})

\* C15: sends are strictly sequential: at most one send is in progress at
\* any time, a send that returned is followed by the post-send yield and by
\* nothing else, and the loop reads the next line only after the yield (or
\* after an empty line, which is not sent) and calls the next send only for
\* the line it has just read
C15_SendsAreSequential ==
    /\ SendsInProgress \in {0, 1}
    /\ SendsInProgress = 1 <=> (loopTrace # <<>> /\ loopTrace[Len(loopTrace)] = "call")
    /\ \A i \in 1..Len(loopTrace) :
         /\ (loopTrace[i] = "read" /\ i > 1) => loopTrace[i-1] \in {"yield", "read"}
         /\ loopTrace[i] = "call" => (i > 1 /\ loopTrace[i-1] = "read")
         /\ (loopTrace[i] = "call" /\ i < Len(loopTrace)) =>
                loopTrace[i+1] \in {"return", "raise"}
         /\ (loopTrace[i] = "return" /\ i < Len(loopTrace)) => loopTrace[i+1] = "yield"
         /\ loopTrace[i] = "raise" => i = Len(loopTrace)

\* two sends were made, the second after the first returned and the yield
\* elapsed
C15_Witness ==
    /\ CountSteps(loopTrace, {"call"}) = 2
    /\ CountSteps(loopTrace, {"yield"}) >= 1
    /\ pc = "sending"

----------------------------------------------------------------------------
(* The session with inbound events: main() from the moment the interface   *)
(* of line 154 is constructed, for one address, with the publisher of the  *)
(* library delivering events while main() runs.                            *)

SessionAddress == <<"a">>

\* the state main() is in when BLEInterface(address=address) has returned
\* and line 155 has printed
InitSession ==
    /\ pc = "stabilise"
    /\ argv = <<Program, SessionAddress>>
    /\ address = PyStr(SessionAddress)
    /\ findDeviceAttr = "custom_find_device"
    /\ connectAttr = "custom_connect"
    /\ original_connect = "library_connect"
    /\ subscribed = TRUE
    /\ ctorCalls = 1
    /\ overrideCalls = 1
    /\ originalCalls = 0
    /\ directClients = 1
    /\ cbRegistered = TRUE
    /\ linkOpen = TRUE
    /\ connectOk = TRUE
    /\ discoverOk = TRUE
    /\ ble_iface = "open"
    /\ closeCalls = 0
    /\ linkDropped = FALSE
    /\ cbFired = 0
    /\ linesRead = <<>>
    /\ msg = ""
    /\ sendCalls = <<>>
    /\ sendFailures = 0
    /\ exc = "none"
    /\ interrupt = "none"
    /\ interruptAt = "none"
    /\ cancelPending = FALSE
    /\ console = Emit(Emit(<<>>,
                     "Attempting to connect to BLE device at address: ",
                     SessionAddress),
                     "Connected to BLE device!", NoArg)
    /\ exitStatus = <<>>
    /\ FindIdle
    /\ RecvIdle
    /\ loopTrace = <<>>

NextSession ==
    \/ StabiliseDone
    \/ ReadLine
    \/ InputFails
    \/ SendCall
    \/ SendReturn
    \/ YieldDone
    \/ UserInterrupt
    \/ DeliverCancel
    \/ ExceptKeyboardInterrupt
    \/ FinallyClose
    \/ FinallyExit
    \/ LinkDrop
    \/ InboundEvent

SpecSession == InitSession /\ [][NextSession]_vars

----------------------------------------------------------------------------
(* Inbound events against the read loop.                                   *)

\* main() is Connected and inside the read loop, the handle still open
InReadLoop ==
    /\ ReachedConnected
    /\ Running
    /\ ble_iface = "open"
    /\ pc \in LoopPoints

----------------------------------------------------------------------------
(* The order of the installs at process start (lines 184-191).             *)

\* C17: the original connect routine is captured exactly once, while
\* BLEInterface.connect is still the library's routine; both overrides and
\* the subscription are in place before the first construction of the
\* interface; so the fallback of line 97 runs the library's routine, once
\* per call of the override, and the override never calls itself.
C17_OriginalCapturedBeforeOverride ==
    /\ [](/\ connectAttr = "custom_connect" => original_connect = "library_connect"
          /\ original_connect \in {"unset", "library_connect"}
          /\ ctorCalls > 0 =>
                /\ findDeviceAttr = "custom_find_device"
                /\ connectAttr = "custom_connect"
                /\ original_connect = "library_connect"
                /\ subscribed
          /\ overrideCalls <= ctorCalls
          /\ originalCalls <= overrideCalls
          /\ exc \notin {"NameError", "RecursionError"})
    /\ [][original_connect' # original_connect =>
              /\ original_connect = "unset"
              /\ connectAttr = "library_connect"
              /\ ctorCalls = 0]_vars

\* the fallback was taken (the address is empty) and the library's routine
\* ran once and returned a client
C17_Witness ==
    /\ ~Truthy(address)
    /\ pc = "cc_returned"
    /\ overrideCalls = 1
    /\ originalCalls = 1

----------------------------------------------------------------------------
(* What custom_find_device prints (lines 50-52).                           *)

\* C18: once the print loop of one call has run, whether the call then
\* returns a match (at any position of the list) or raises, the console
\* holds the header followed by exactly one line per entry of the scan
\* result, in scan order, showing that entry's address and name.
C18_EveryDevicePrintedOnce ==
    pc \in {"find_match", "find_done"} =>
        /\ Len(console) = 1 + Len(devices)
        /\ console[1].line = "Discovered Devices:"
        /\ \A i \in 1..Len(devices) :
             /\ console[i + 1].line = "  Address: , Name: "
             /\ console[i + 1].arg =
                    devices[i].address \o <<", Name: ", devices[i].name>>

\* the match is the first of three devices: the two after it are printed
\* all the same
C18_Witness ==
    /\ pc = "find_done"
    /\ Len(devices) = 3
    /\ found = <<devices[1]>>
    /\ devices[2] # devices[1]
    /\ devices[3] # devices[1]
    /\ Len(console) = 4

----------------------------------------------------------------------------
(* How the process ends once the read loop was entered (lines 169-180).    *)

\* the read loop was entered and has been left
LoopEnded ==
    /\ ReachedConnected
    /\ pc \in {"except_ki", "finally", "finally_exit", "exited"}

\* C19: once a run has reached Connected, whatever ends the read loop (a
\* user interrupt, a failed send, a failed input read) the process goes on
\* to exit, and its exit status is 0: the exception that ended the loop
\* does not decide the status.
C19_ConnectedRunExitsZero ==
    /\ []((ReachedConnected /\ ~Running) => (pc = "exited" /\ ExitedWith(0)))
    /\ LoopEnded ~> ExitedWith(0)

\* end of input ended the loop and the process exited with status 0
C19_Witness ==
    /\ ReachedConnected
    /\ exc = "EOFError"
    /\ interrupt = "none"
    /\ ExitedWith(0)

----------------------------------------------------------------------------
(* The order of the sends (lines 172-174) against close (line 179).        *)

\* C20: the k-th send call carries the k-th non-empty line read; a send
\* call is always appended after the ones already made and carries the
\* line read last; and every send call is made on a handle on which
\* close has not been called.
C20_SendsInTypedOrderBeforeClose ==
    /\ [](/\ Len(sendCalls) <= Len(NonEmptyLinesRead)
          /\ \A k \in 1..Len(sendCalls) : sendCalls[k].text = NonEmptyLinesRead[k]
          /\ closeCalls > 0 => pc \notin {"send", "sending"})
    /\ [][sendCalls' # sendCalls =>
              /\ Len(sendCalls') = Len(sendCalls) + 1
              /\ SubSeq(sendCalls', 1, Len(sendCalls)) = sendCalls
              /\ sendCalls'[Len(sendCalls')].text = linesRead[Len(linesRead)]
              /\ closeCalls = 0
              /\ ble_iface = "open"]_vars

\* two different lines were typed and sent in that order, and the handle
\* was closed afterwards
C20_Witness ==
    /\ linesRead = <<"hi", " ">>
    /\ Len(sendCalls) = 2
    /\ sendCalls[1].text = "hi"
    /\ sendCalls[2].text = " "
    /\ closeCalls = 1
    /\ ~Running

====
